---- MODULE Spec2Model ----
(***************************************************************************)
(* srv: a single-binary HTTP file server that also browses zip archives.   *)
(* The model follows src/main.go: the request handler (context.handler),   *)
(* the three listing renderers and isZip, over a small fixed disk.         *)
(*                                                                         *)
(* Strings are sequences of one-character strings, so that splitting,      *)
(* percent-decoding, cleaning and joining are computed as the program      *)
(* computes them.                                                          *)
(***************************************************************************)
EXTENDS Integers, Sequences, FiniteSets, TLC

\* ------------------------------------------------------------------ bounds

\* The most path segments a request target is built from.
MaxSegs == 3

\* ------------------------------------------------------ characters, strings

\* The characters that occur in the model, in byte order.
Chars ==
    << "%", ".", "/", "0", "1", "2", "5", "?", "B", "F", "I", "P", "Z",
       "a", "b", "d", "e", "f", "g", "h", "i", "k", "l", "m", "n", "o",
       "p", "s", "t", "u", "x", "z" >>

\* The byte order of a character (its rank among Chars).
Ord(c) ==
    CHOOSE i \in 1..Len(Chars) : Chars[i] = c

Digits == {"0", "1", "2", "5"}

DigitVal(c) ==
    CASE c = "0" -> 0 [] c = "1" -> 1 [] c = "2" -> 2 [] c = "5" -> 5

HexDigits == {"0", "1", "2", "5", "B", "F", "a", "b", "d", "e", "f"}

\* strings.ToLower on one character.
LowerChar(c) ==
    CASE c = "B" -> "b" [] c = "F" -> "f" [] c = "I" -> "i"
      [] c = "P" -> "p" [] c = "Z" -> "z" [] OTHER -> c

\* strings.ToLower
ToLower(s) ==
    [i \in 1..Len(s) |-> LowerChar(s[i])]

\* Byte-wise string order (Go's < on strings).
RECURSIVE StrLess(_, _)
StrLess(a, b) ==
    IF b = <<>> THEN FALSE
    ELSE IF a = <<>> THEN TRUE
    ELSE IF a[1] # b[1] THEN Ord(a[1]) < Ord(b[1])
    ELSE StrLess(Tail(a), Tail(b))

\* strings.Split(s, "/"): the segments between separators, empty ones kept.
RECURSIVE SplitFrom(_, _, _)
SplitFrom(s, i, cur) ==
    IF i > Len(s) THEN <<cur>>
    ELSE IF s[i] = "/" THEN <<cur>> \o SplitFrom(s, i + 1, <<>>)
    ELSE SplitFrom(s, i + 1, Append(cur, s[i]))

Split(s) ==
    SplitFrom(s, 1, <<>>)

\* strings.Join(segs, "/")
RECURSIVE JoinSlash(_)
JoinSlash(segs) ==
    IF segs = <<>> THEN <<>>
    ELSE IF Len(segs) = 1 THEN segs[1]
    ELSE segs[1] \o <<"/">> \o JoinSlash(Tail(segs))

\* strings.TrimSuffix(s, "/")
TrimSlash(s) ==
    IF s # <<>> /\ s[Len(s)] = "/" THEN SubSeq(s, 1, Len(s) - 1) ELSE s

\* The elements of a sequence that satisfy a test, in order.
RECURSIVE NonEmpty(_)
NonEmpty(segs) ==
    IF segs = <<>> THEN <<>>
    ELSE IF segs[1] = <<>> THEN NonEmpty(Tail(segs))
    ELSE <<segs[1]>> \o NonEmpty(Tail(segs))

\* -------------------------------------------------------------- path.Clean

\* The lexical processing of path.Clean on the segments of a path: empty and
\* "." elements are dropped, ".." removes the element before it, is dropped at
\* the root and kept at the start of a relative path.
RECURSIVE CleanSegs(_, _, _)
CleanSegs(segs, rooted, acc) ==
    IF segs = <<>> THEN acc
    ELSE LET h == segs[1]
             t == Tail(segs)
         IN  IF h = <<>> \/ h = <<".">> THEN CleanSegs(t, rooted, acc)
             ELSE IF h = <<".", ".">>
             THEN IF acc # <<>> /\ acc[Len(acc)] # <<".", ".">>
                  THEN CleanSegs(t, rooted, SubSeq(acc, 1, Len(acc) - 1))
                  ELSE IF rooted THEN CleanSegs(t, rooted, acc)
                  ELSE CleanSegs(t, rooted, Append(acc, h))
             ELSE CleanSegs(t, rooted, Append(acc, h))

\* path.Clean
Clean(s) ==
    IF s = <<>> THEN <<".">>
    ELSE LET rooted == s[1] = "/"
             body == JoinSlash(CleanSegs(Split(s), rooted, <<>>))
         IN  IF rooted THEN <<"/">> \o body
             ELSE IF body = <<>> THEN <<".">> ELSE body

\* path.Join: the non-empty elements joined by "/" and cleaned; "" if none.
Join(elems) ==
    LET ne == NonEmpty(elems)
    IN  IF ne = <<>> THEN <<>> ELSE Clean(JoinSlash(ne))

\* ------------------------------------------------------ percent-encoding

\* The byte a pair of hex digits stands for; "?" is any byte outside the
\* characters the model's names are made of.
Unhex(h1, h2) ==
    CASE h1 = "2" /\ h2 = "5" -> "%"
      [] h1 = "2" /\ h2 = "e" -> "."
      [] h1 = "2" /\ h2 \in {"F", "f"} -> "/"
      [] OTHER -> "?"

\* Whether every "%" of s is followed by two hex digits.
RECURSIVE ValidEscapes(_)
ValidEscapes(s) ==
    IF s = <<>> THEN TRUE
    ELSE IF s[1] = "%"
    THEN /\ Len(s) >= 3
         /\ s[2] \in HexDigits
         /\ s[3] \in HexDigits
         /\ ValidEscapes(SubSeq(s, 4, Len(s)))
    ELSE ValidEscapes(Tail(s))

RECURSIVE Decode(_)
Decode(s) ==
    IF s = <<>> THEN <<>>
    ELSE IF s[1] = "%" THEN <<Unhex(s[2], s[3])>> \o Decode(SubSeq(s, 4, Len(s)))
    ELSE <<s[1]>> \o Decode(Tail(s))

\* url.PathUnescape: one pass of percent-decoding, or an error.
PathUnescape(s) ==
    IF ValidEscapes(s) THEN [err |-> FALSE, val |-> Decode(s)]
    ELSE [err |-> TRUE, val |-> <<>>]

\* url.PathEscape on the characters of the model: "/", "%" and "?" are
\* escaped, letters, digits and "." are not.
RECURSIVE PathEscape(_)
PathEscape(s) ==
    IF s = <<>> THEN <<>>
    ELSE (CASE s[1] = "/" -> <<"%", "2", "F">>
            [] s[1] = "%" -> <<"%", "2", "5">>
            [] s[1] = "?" -> <<"%", "?", "?">>
            [] OTHER -> <<s[1]>>) \o PathEscape(Tail(s))

\* ------------------------------------------------------------- isZip

\* filepath.Ext: the suffix from the last "." of the last path element.
RECURSIVE ExtFrom(_, _)
ExtFrom(s, i) ==
    IF i < 1 \/ s[i] = "/" THEN <<>>
    ELSE IF s[i] = "." THEN SubSeq(s, i, Len(s))
    ELSE ExtFrom(s, i - 1)

Ext(s) ==
    ExtFrom(s, Len(s))

\* The system's extension table as mime.TypeByExtension reads it: a table
\* that knows .zip (Go's built-in table does not; the type comes from the
\* system's mime.types).
MimeTable(ext) ==
    CASE ext = <<".", "z", "i", "p">> -> "application/zip"
      [] ext = <<".", "h", "t", "m", "l">> -> "text/html"
      [] OTHER -> ""

\* mime.TypeByExtension: the extension as written, then lower-cased.
TypeByExtension(ext) ==
    IF MimeTable(ext) # "" THEN MimeTable(ext) ELSE MimeTable(ToLower(ext))

isZip(s) ==
    TypeByExtension(Ext(s)) = TypeByExtension(<<".", "z", "i", "p">>)

\* ------------------------------------------------- the path partition

\* The loop's turn without the test that an archive segment was already
\* found: every segment with a zip extension becomes the archive segment.
PartitionStepReenter(acc, fpath) ==
    IF isZip(fpath)
    THEN [acc EXCEPT !.zipFile = fpath]
    ELSE IF Len(acc.zipFile) = 0
    THEN [acc EXCEPT !.fsPath = Append(@, fpath)]
    ELSE [acc EXCEPT !.zipPath = Append(@, fpath)]

\* One turn of the loop over dirs: before an archive segment is found a
\* segment is the archive or joins fsPath, after it every segment joins zipPath.
PartitionStep(acc, fpath) ==
    IF Len(acc.zipFile) = 0
    THEN IF isZip(fpath)
         THEN [acc EXCEPT !.zipFile = fpath]
         ELSE [acc EXCEPT !.fsPath = Append(@, fpath)]
    ELSE [acc EXCEPT !.zipPath = Append(@, fpath)]

RECURSIVE PartitionLoop(_, _)
PartitionLoop(acc, dirs) ==
    IF dirs = <<>> THEN acc
    ELSE PartitionLoop(PartitionStep(acc, dirs[1]), Tail(dirs))

\* fsPath, zipFile and zipPath of a decoded request path.
Partition(fp) ==
    PartitionLoop([fsPath |-> <<>>, zipFile |-> <<>>, zipPath |-> <<>>], Split(fp))

\* ------------------------------------------------------------ the disk

nAzip == <<"a", ".", "z", "i", "p">>
nBZIP == <<"B", ".", "Z", "I", "P">>
nD == <<"d">>
nE == <<"e">>
nX2 == <<"x", "2">>
nX10 == <<"x", "1", "0">>
nLnk == <<"l", "n", "k">>
nLd == <<"l", "d">>
nOut == <<"o", "u", "t">>
nDang == <<"d", "a", "n", "g">>
nNope == <<"n", "o", "p", "e">>
nIndex == <<"i", "n", "d", "e", "x", ".", "h", "t", "m", "l">>
nS == <<"s">>
nP == <<"p">>

Absent == [kind |-> "absent", data |-> "", target |-> <<>>]
DirNode == [kind |-> "dir", data |-> "", target |-> <<>>]
FileNode(d) == [kind |-> "file", data |-> d, target |-> <<>>]
LinkNode(t) == [kind |-> "symlink", data |-> "", target |-> t]

\* The machine's files, by absolute path (a sequence of names). /s is the
\* served directory; /p lies outside it.
Node(p) ==
    CASE p = <<>> -> DirNode
      [] p = <<nP>> -> FileNode("secret")
      [] p = <<nAzip>> -> FileNode("other")
      [] p = <<nS>> -> DirNode
      [] p = <<nS, nAzip>> -> FileNode("zipA")
      [] p = <<nS, nBZIP>> -> FileNode("junk")
      [] p = <<nS, nD>> -> DirNode
      [] p = <<nS, nD, nIndex>> -> FileNode("index")
      [] p = <<nS, nE>> -> DirNode
      [] p = <<nS, nE, nX10>> -> FileNode("ex10")
      [] p = <<nS, nE, nX2>> -> FileNode("ex2")
      [] p = <<nS, nE, nLnk>> -> LinkNode(<<nS, nX2>>)
      [] p = <<nS, nX2>> -> FileNode("x2")
      [] p = <<nS, nLnk>> -> LinkNode(<<nS, nX2>>)
      [] p = <<nS, nLd>> -> LinkNode(<<nS, nE>>)
      [] p = <<nS, nOut>> -> LinkNode(<<nP>>)
      [] p = <<nS, nDang>> -> LinkNode(<<nS, nNope>>)
      [] OTHER -> Absent

\* The names in a directory, in the order the directory holds them.
DirNames(p) ==
    CASE p = <<>> -> <<nP, nAzip, nS>>
      [] p = <<nS>> -> <<nX2, nAzip, nLnk, nE, nBZIP, nD, nLd, nOut, nDang>>
      [] p = <<nS, nD>> -> <<nIndex>>
      [] p = <<nS, nE>> -> <<nX10, nLnk, nX2>>
      [] OTHER -> <<>>

\* How often a lookup follows a symbolic link before it gives up (ELOOP).
MaxLinks == 4

\* The kernel's path walk from directory cur: the entry reached, or the error.
\* The last element's symlink is followed only when followLast.
RECURSIVE Walk(_, _, _, _)
Walk(cur, segs, followLast, fuel) ==
    IF segs = <<>> THEN [err |-> "", path |-> cur]
    ELSE IF Node(cur).kind # "dir" THEN [err |-> "ENOTDIR", path |-> <<>>]
    ELSE LET h == segs[1]
             t == Tail(segs)
             nxt == Append(cur, h)
         IN  IF h = <<".">> THEN Walk(cur, t, followLast, fuel)
             ELSE IF h = <<".", ".">>
             THEN Walk(IF cur = <<>> THEN cur ELSE SubSeq(cur, 1, Len(cur) - 1),
                       t, followLast, fuel)
             ELSE IF Node(nxt).kind = "absent" THEN [err |-> "ENOENT", path |-> <<>>]
             ELSE IF Node(nxt).kind = "symlink" /\ (t # <<>> \/ followLast)
             THEN IF fuel = 0 THEN [err |-> "ELOOP", path |-> <<>>]
                  ELSE Walk(<<>>, Node(nxt).target \o t, followLast, fuel - 1)
             ELSE Walk(nxt, t, followLast, fuel)

\* A path name as the kernel reads it: from / when rooted, else from cwd.
Lookup(cwd, name, followLast) ==
    IF name = <<>> THEN [err |-> "ENOENT", path |-> <<>>]
    ELSE Walk(IF name[1] = "/" THEN <<>> ELSE cwd, NonEmpty(Split(name)),
              followLast, MaxLinks)

\* os.Lstat: the entry itself, a final symlink not followed.
Lstat(cwd, name) ==
    Lookup(cwd, name, FALSE)

\* os.Open: the entry a final symlink leads to.
Open(cwd, name) ==
    Lookup(cwd, name, TRUE)

\* filepath.Abs: a rooted path is cleaned, another is joined to cwd.
Abs(cwd, name) ==
    IF name # <<>> /\ name[1] = "/" THEN Clean(name)
    ELSE Join(<< <<"/">> \o JoinSlash(cwd), name >>)

\* --------------------------------------------------------- zip archives

\* The entries of the archive a file holds, in the archive's own order
\* (zip.Reader.File); <<>> with ok FALSE when the bytes are no zip archive.
\* In "zipA" the directory e has an entry of its own and the directory d
\* exists only as the prefix of d/x2.
ZipFiles(data) ==
    IF data = "zipA"
    THEN << [Name |-> nX10, mode |-> "file", data |-> "zx10"],
            [Name |-> nX2, mode |-> "file", data |-> "zx2"],
            [Name |-> nE \o <<"/">>, mode |-> "dir", data |-> ""],
            [Name |-> nE \o <<"/">> \o nX10, mode |-> "file", data |-> "zex10"],
            [Name |-> nE \o <<"/">> \o nX2, mode |-> "file", data |-> "zex2"],
            [Name |-> nD \o <<"/">> \o nX2, mode |-> "file", data |-> "zdx2"] >>
    ELSE <<>>

IsZipData(data) ==
    data = "zipA"

\* zip.OpenReader: the file is opened (symlinks followed) and read as a zip.
OpenReader(cwd, name) ==
    LET o == Open(cwd, name)
    IN  IF o.err # "" THEN [err |-> TRUE, File |-> <<>>]
        ELSE IF Node(o.path).kind # "file" \/ ~IsZipData(Node(o.path).data)
        THEN [err |-> TRUE, File |-> <<>>]
        ELSE [err |-> FALSE, File |-> ZipFiles(Node(o.path).data)]

\* fs.ValidPath: "." or slash-separated elements, none empty, "." or "..".
ValidPath(name) ==
    \/ name = <<".">>
    \/ /\ name # <<>>
       /\ \A i \in 1..Len(Split(name)) :
             Split(name)[i] \notin {<<>>, <<".">>, <<".", ".">>}

\* Whether segs begins with pre.
IsPrefix(pre, segs) ==
    Len(pre) <= Len(segs) /\ SubSeq(segs, 1, Len(pre)) = pre

\* The elements of an entry's name, a directory's trailing "/" dropped.
EntrySegs(e) ==
    Split(TrimSlash(e.Name))

\* The archive as a file tree (zip.Reader.Open): an entry of that name, or a
\* directory that exists only as the prefix of deeper entries.
ZipLookup(File, name) ==
    LET want == IF name = <<".">> THEN <<>> ELSE Split(name)
        exact == {i \in 1..Len(File) : EntrySegs(File[i]) = want}
        below == {i \in 1..Len(File) :
                     IsPrefix(want, EntrySegs(File[i])) /\ Len(EntrySegs(File[i])) > Len(want)}
    IN  IF ~ValidPath(name) THEN [err |-> TRUE, isDir |-> FALSE, data |-> ""]
        ELSE IF want = <<>> THEN [err |-> FALSE, isDir |-> TRUE, data |-> ""]
        ELSE IF exact # {}
        THEN LET e == File[CHOOSE i \in exact : \A j \in exact : i <= j]
             IN  [err |-> FALSE, isDir |-> e.mode = "dir", data |-> e.data]
        ELSE IF below # {} THEN [err |-> FALSE, isDir |-> TRUE, data |-> ""]
        ELSE [err |-> TRUE, isDir |-> FALSE, data |-> ""]

\* A set of strings as a sequence in byte order (the sort of fs.ReadDir).
RECURSIVE SortNames(_)
SortNames(S) ==
    IF S = {} THEN <<>>
    ELSE LET m == CHOOSE x \in S : \A y \in S : x = y \/ StrLess(x, y)
         IN  <<m>> \o SortNames(S \ {m})

\* fs.ReadDir on the archive: the direct children of a directory, entries
\* of their own or prefixes of deeper entries, sorted by name.
ZipReadDir(File, name) ==
    LET want == IF name = <<".">> THEN <<>> ELSE Split(name)
        kids == {EntrySegs(File[i])[Len(want) + 1] :
                    i \in {j \in 1..Len(File) :
                              IsPrefix(want, EntrySegs(File[j]))
                              /\ Len(EntrySegs(File[j])) > Len(want)}}
        names == SortNames(kids)
    IN  [i \in 1..Len(names) |->
            [Name |-> names[i],
             isDir |-> ZipLookup(File, JoinSlash(Append(want, names[i]))).isDir]]

\* ------------------------------------------------------ natural order

\* The leading run of digits of s.
RECURSIVE DigitRun(_)
DigitRun(s) ==
    IF s = <<>> \/ s[1] \notin Digits THEN <<>>
    ELSE <<s[1]>> \o DigitRun(Tail(s))

RECURSIVE NumVal(_, _)
NumVal(ds, acc) ==
    IF ds = <<>> THEN acc ELSE NumVal(Tail(ds), 10 * acc + DigitVal(ds[1]))

\* humanize.NaturalLess: runs of digits compare as integers, everything else
\* byte by byte.
RECURSIVE NaturalLess(_, _)
NaturalLess(a, b) ==
    IF b = <<>> THEN FALSE
    ELSE IF a = <<>> THEN TRUE
    ELSE IF a[1] \in Digits /\ b[1] \in Digits
    THEN LET ra == DigitRun(a)
             rb == DigitRun(b)
         IN  IF NumVal(ra, 0) # NumVal(rb, 0) THEN NumVal(ra, 0) < NumVal(rb, 0)
             ELSE IF Len(ra) # Len(rb) THEN Len(ra) < Len(rb)
             ELSE NaturalLess(SubSeq(a, Len(ra) + 1, Len(a)), SubSeq(b, Len(rb) + 1, Len(b)))
    ELSE IF a[1] # b[1] THEN Ord(a[1]) < Ord(b[1])
    ELSE NaturalLess(Tail(a), Tail(b))

\* The comparison renderListing hands to sort.Slice.
ListingLess(x, y) ==
    NaturalLess(ToLower(x), ToLower(y))

\* sort.Slice with ListingLess on a short slice: insertion sort.
RECURSIVE InsertName(_, _)
InsertName(sorted, x) ==
    IF sorted = <<>> THEN <<x>>
    ELSE IF ListingLess(x, sorted[Len(sorted)])
    THEN Append(InsertName(SubSeq(sorted, 1, Len(sorted) - 1), x), sorted[Len(sorted)])
    ELSE Append(sorted, x)

RECURSIVE SortListing(_, _)
SortListing(names, i) ==
    IF i = 0 THEN <<>> ELSE InsertName(SortListing(names, i - 1), names[i])

\* ----------------------------------------------------------- renderers

\* A rendered table row: the entry's name, the text shown for it, and the link
\* target ("" when the entry is shown without a link).
Row(entry, name, href, linked) ==
    [entry |-> entry, name |-> name, href |-> href, linked |-> linked]

Reverse(s) ==
    [i \in 1..Len(s) |-> s[Len(s) + 1 - i]]

\* f.Readdir(-1): the names of directory dir, in directory order, which the
\* file system is free to hand out either way round.
Readdir(dir, rev) ==
    IF rev THEN Reverse(DirNames(dir)) ELSE DirNames(dir)

\* renderListing: the directory's entries sorted, then one row each.
renderListing(dir, rev) ==
    LET files == SortListing(Readdir(dir, rev), Len(Readdir(dir, rev)))
    IN  [i \in 1..Len(files) |->
            LET fn == files[i]
                m == Node(Append(dir, fn)).kind
            IN  CASE m = "dir" -> Row(fn, fn \o <<"/">>, PathEscape(fn) \o <<"/">>, TRUE)
                  [] m = "file" -> Row(fn, fn, PathEscape(fn), TRUE)
                  [] OTHER -> Row(fn, fn, <<>>, FALSE)]

\* renderZipFolderListing: one row per entry of fs.ReadDir, in its order.
renderZipFolderListing(f, parentPath) ==
    [i \in 1..Len(f) |->
        Row(f[i].Name, f[i].Name, <<"/">> \o Join(<<parentPath, PathEscape(f[i].Name)>>), TRUE)]

\* The entries of the archive that renderZipListing renders: directories and
\* regular files whose name has a single element.
RECURSIVE SelectTop(_)
SelectTop(File) ==
    IF File = <<>> THEN <<>>
    ELSE LET fi == File[1]
             keep == \/ fi.mode = "dir" /\ Len(Split(TrimSlash(fi.Name))) = 1
                     \/ fi.mode = "file" /\ Len(Split(fi.Name)) = 1
         IN  (IF keep THEN <<fi>> ELSE <<>>) \o SelectTop(Tail(File))

\* renderZipListing: one row per selected entry, in the archive's order.
renderZipListing(File, parentPath) ==
    LET top == SelectTop(File)
    IN  [i \in 1..Len(top) |->
            Row(top[i].Name, top[i].Name, <<"/">> \o Join(<<parentPath, PathEscape(top[i].Name)>>), TRUE)]

\* ---------------------------------------------------------- the handler

\* What one run of the handler did: the response (status 0: none was
\* written), the branch it took, the handles it opened and those it closed,
\* and whether it ended the process.
Res(status, kind, data, rows, branch, opened, closed) ==
    [status |-> status, kind |-> kind, data |-> data, rows |-> rows,
     branch |-> branch, opened |-> opened, closed |-> closed, fatal |-> FALSE]

\* http.Error
Error(status, branch, opened, closed) ==
    Res(status, "error", "", <<>>, branch, opened, closed)

\* http.ServeContent on what os.Open returned: the file's bytes, or a 500
\* when the handle is nil or cannot be read as a file.
ServeContent(o, branch, opened, closed) ==
    IF o.err = "" /\ Node(o.path).kind = "file"
    THEN Res(200, "bytes", Node(o.path).data, <<>>, branch, opened, closed)
    ELSE Error(500, branch, opened, closed)

\* isDownload: filepath.Abs of the decoded request path is opened and served;
\* the deferred f.Close() of a nil *os.File returns an error and does nothing.
serveDownload(cwd, fp) ==
    LET f == Open(cwd, Abs(cwd, fp))
        h == IF f.err = "" THEN {"zip", "download"} ELSE {"zip"}
    IN  ServeContent(f, "ArchiveDownload", h, h)

\* len(zipPath) > 0: the inner path is opened in the archive. The errors of
\* z.Open and fs.Stat are dropped, so for a path the archive lacks f is a nil
\* interface and defer f.Close() panics; net/http recovers the panic and
\* drops the connection, and the deferred z.Close() runs.
serveInner(File, zipFilePath, zipPath) ==
    LET zipInternalPath == Join(zipPath)
        f == ZipLookup(File, zipInternalPath)
    IN  IF f.err
        THEN Res(0, "panic", "", <<>>, "ArchiveMissing", {"zip"}, {"zip"})
        ELSE IF f.isDir
        THEN Res(200, "listing", "",
                 renderZipFolderListing(ZipReadDir(File, zipInternalPath),
                                        Join(<<zipFilePath, zipInternalPath>>)),
                 "ArchiveInternalDirectory", {"zip", "inner"}, {"zip", "inner"})
        ELSE Res(200, "bytes", f.data, <<>>, "ArchiveInternalFile",
                 {"zip", "inner"}, {"zip", "inner"})

\* len(zipFile) > 0: the archive at srvDir/fsPath/zipFile is opened, and a
\* failure to open it ends the process (log.Fatal).
zipBranch(c, cwd, r, fp, part) ==
    LET zipFilePath == Join(<<c, Join(Append(part.fsPath, part.zipFile))>>)
        z == OpenReader(cwd, zipFilePath)
    IN  IF z.err
        THEN [Res(0, "none", "", <<>>, "ArchiveOpenFailure", {}, {}) EXCEPT !.fatal = TRUE]
        ELSE IF r.download THEN serveDownload(cwd, fp)
        ELSE IF Len(part.zipPath) > 0 THEN serveInner(z.File, zipFilePath, part.zipPath)
        ELSE Res(200, "listing", "", renderZipListing(z.File, zipFilePath),
                 "ArchiveRoot", {"zip"}, {"zip"})

\* serveDir without the html.Close() that follows io.Copy.
serveDirNoClose(cwd, fp, dir, rev) ==
    LET html == Open(cwd, Join(<<fp, nIndex>>))
    IN  IF html.err = ""
        THEN Res(200, "bytes", Node(html.path).data, <<>>, "Index",
                 {"file", "index"}, {"file"})
        ELSE Res(200, "listing", "", renderListing(dir, rev), "FilesystemDirectory",
                 {"file"}, {"file"})

\* A directory: its index.html if that opens (copied, then closed), else
\* html.Close() on the nil file and a listing.
serveDir(cwd, fp, dir, rev) ==
    LET html == Open(cwd, Join(<<fp, nIndex>>))
    IN  IF html.err = ""
        THEN Res(200, "bytes", Node(html.path).data, <<>>, "Index",
                 {"file", "index"}, {"file", "index"})
        ELSE Res(200, "listing", "", renderListing(dir, rev), "FilesystemDirectory",
                 {"file"}, {"file"})

\* No archive segment: srvDir joined with the path, os.Lstat, os.Open, then
\* the switch on the mode Lstat reported.
fsBranch(c, cwd, fp0, rev) ==
    LET fp == Join(<<c, fp0>>)
        fi == Lstat(cwd, fp)
        f == Open(cwd, fp)
        m == Node(fi.path).kind
    IN  IF fi.err = "ENOENT" THEN Error(404, "NotFound", {}, {})
        ELSE IF fi.err # "" THEN Error(500, "StatFailure", {}, {})
        ELSE IF f.err # "" THEN Error(500, "OpenFailure", {}, {})
        ELSE CASE m = "dir" -> serveDir(cwd, fp, f.path, rev)
               [] m = "file" -> ServeContent(f, "FilesystemFile", {"file"}, {"file"})
               [] m = "symlink" -> Error(403, "FilesystemSymlink", {"file"}, {"file"})
               [] OTHER -> Error(403, "FilesystemOther", {"file"}, {"file"})

NoPartition == [fsPath |-> <<>>, zipFile |-> <<>>, zipPath |-> <<>>]

\* context.handler on request r, whose Path is r.URL.Path: what it answered
\* together with its locals fp (the path after url.PathUnescape) and the
\* partition of fp.
handler(c, cwd, r, rev) ==
    IF r.method # "GET"
    THEN [res |-> Error(405, "MethodNotAllowed", {}, {}), fp |-> <<>>, part |-> NoPartition]
    ELSE LET u == PathUnescape(r.Path)
             part == Partition(u.val)
         IN  IF u.err
             THEN [res |-> Error(500, "DecodeError", {}, {}), fp |-> <<>>,
                   part |-> NoPartition]
             ELSE [res |-> IF Len(part.zipFile) > 0
                           THEN zipBranch(c, cwd, r, u.val, part)
                           ELSE fsBranch(c, cwd, u.val, rev),
                   fp |-> u.val, part |-> part]

\* ------------------------------------------------------------ requests

\* The path segments request targets are made of, as the client writes them.
Tokens ==
    { nAzip, nBZIP, nD, nE, nX2, nLnk, nLd, nOut, nDang, nNope, <<>>,
      <<".", ".">>,
      <<"%", "2", "5", "2", "e", "%", "2", "5", "2", "e">>,
      <<"%", "2", "5", "2", "F">> }

\* The request targets of n segments.
TargetsOf(n) ==
    {<<"/">> \o JoinSlash(t) : t \in [1..n -> Tokens]}

Targets ==
    UNION {TargetsOf(n) : n \in 1..MaxSegs}

Requests ==
    [method : {"GET"}, target : Targets, download : BOOLEAN]
        \cup [method : {"POST"}, target : TargetsOf(1), download : {FALSE}]

\* r.URL.Path: net/http percent-decodes the request target once.
URLPath(target) ==
    PathUnescape(target).val

\* The request as the handler sees it.
HttpRequest(q) ==
    [method |-> q.method, Path |-> URLPath(q.target), download |-> q.download]

\* ServeMux's cleanPath: path.Clean, a trailing slash kept.
cleanPath(p) ==
    LET np == Clean(p)
    IN  IF p[Len(p)] = "/" /\ np # <<"/">> THEN np \o <<"/">> ELSE np

\* --------------------------------------------------------------- state

VARIABLES
    srvDir,       \* context.srvDir, the directory given on the command line
    cwd,          \* the process's working directory
    alive,        \* the process is running
    pc,           \* "idle", "recv" (a request is at the mux), "done"
    req,          \* the request being served
    out,          \* what the handler did with it
    openHandles   \* files and archive readers the process holds open

vars == <<srvDir, cwd, alive, pc, req, out, openHandles>>

NoRequest == [method |-> "", target |-> <<>>, download |-> FALSE]
NoOut == [res |-> Res(0, "none", "", <<>>, "", {}, {}), fp |-> <<>>, part |-> NoPartition]

\* main: srvDir is "." unless an argument names it, and is a directory.
Configs ==
    { [srvDir |-> <<".">>, cwd |-> <<nS>>],
      [srvDir |-> <<"/", "s">>, cwd |-> <<>>] }

Init ==
    /\ \E cfg \in Configs :
          /\ Node(Open(cfg.cwd, cfg.srvDir).path).kind = "dir"
          /\ srvDir = cfg.srvDir
          /\ cwd = cfg.cwd
    /\ alive = TRUE
    /\ pc = "idle"
    /\ req = NoRequest
    /\ out = NoOut
    /\ openHandles = {}

\* The server reads a request off a connection.
Accept ==
    /\ alive
    /\ pc = "idle"
    /\ \E q \in Requests :
          /\ ValidEscapes(q.target)
          /\ req' = q
    /\ pc' = "recv"
    /\ UNCHANGED <<srvDir, cwd, alive, out, openHandles>>

\* The mux answers a path that is not clean with a redirect to the clean one;
\* the handler is not called.
Redirect ==
    /\ alive
    /\ pc = "recv"
    /\ cleanPath(URLPath(req.target)) # URLPath(req.target)
    /\ out' = [NoOut EXCEPT !.res = Res(301, "redirect", "", <<>>, "Redirect", {}, {})]
    /\ pc' = "done"
    /\ UNCHANGED <<srvDir, cwd, alive, req, openHandles>>

\* The mux calls c.handler, which runs to its end.
Handle ==
    /\ alive
    /\ pc = "recv"
    /\ cleanPath(URLPath(req.target)) = URLPath(req.target)
    /\ \E rev \in BOOLEAN :
          out' = handler(srvDir, cwd, HttpRequest(req), rev)
    /\ alive' = ~out'.res.fatal
    /\ openHandles' = IF out'.res.fatal THEN {}
                      ELSE (openHandles \cup out'.res.opened) \ out'.res.closed
    /\ pc' = "done"
    /\ UNCHANGED <<srvDir, cwd, req>>

\* The response is written and the request's values are dropped.
Finish ==
    /\ alive
    /\ pc = "done"
    /\ pc' = "idle"
    /\ req' = NoRequest
    /\ out' = NoOut
    /\ UNCHANGED <<srvDir, cwd, alive, openHandles>>

Next ==
    \/ Accept
    \/ Redirect
    \/ Handle
    \/ Finish

Spec == Init /\ [][Next]_vars

\* ------------------------------------------------------------- claims

\* A GET request has been through the handler's decoding and partition.
Served ==
    /\ pc = "done"
    /\ req.method = "GET"
    /\ out.res.branch \notin {"", "Redirect", "MethodNotAllowed", "DecodeError"}

\* The archive file the request addresses, root/fsSegments/archiveSegment.
ArchivePath ==
    Join(<<srvDir, Join(Append(out.part.fsPath, out.part.zipFile))>>)

\* The request addresses an archive.
ArchiveRequest ==
    Served /\ Len(out.part.zipFile) > 0

\* The request addresses an archive that opens as a zip.
ArchiveOpened ==
    ArchiveRequest /\ ~OpenReader(cwd, ArchivePath).err

\* The segments of the decoded path that have a zip extension.
ZipSegments ==
    {i \in 1..Len(Split(out.fp)) : isZip(Split(out.fp)[i])}

\* C1: the partition of a decoded request path has the first segment with a
\* zip extension as its archive segment, the segments before it as fsPath and
\* all segments after it, later zip segments included, as zipPath, each in
\* order; with no such segment the archive segment is empty and every segment
\* is in fsPath.
C1_FirstArchiveSegment ==
    Served =>
        LET dirs == Split(out.fp)
        IN  IF ZipSegments = {}
            THEN /\ out.part.zipFile = <<>>
                 /\ out.part.fsPath = dirs
                 /\ out.part.zipPath = <<>>
            ELSE LET k == CHOOSE i \in ZipSegments : \A j \in ZipSegments : i <= j
                 IN  /\ out.part.zipFile = dirs[k]
                     /\ out.part.fsPath = SubSeq(dirs, 1, k - 1)
                     /\ out.part.zipPath = SubSeq(dirs, k + 1, Len(dirs))

\* A path with a directory before the archive and a second zip segment after it.
C1_Witness ==
    /\ Served
    /\ Len(out.part.fsPath) >= 2
    /\ Len(out.part.zipFile) > 0
    /\ \E i \in 1..Len(out.part.zipPath) : isZip(out.part.zipPath[i])

\* The entry the request resolves to under the root is a symlink.
SymlinkEntry ==
    /\ Served
    /\ Len(out.part.zipFile) = 0
    /\ Lstat(cwd, Join(<<srvDir, out.fp>>)).err = ""
    /\ Node(Lstat(cwd, Join(<<srvDir, out.fp>>)).path).kind = "symlink"

\* C2: a GET whose resolved entry is a symlink is answered 403, whatever the
\* symlink points to.
C2_SymlinkAlways403 ==
    SymlinkEntry => out.res.status = 403

\* C3: a GET on an archive segment whose file cannot be opened as a zip is
\* answered 500 and the process keeps running.
C3_OpenFailureIs500 ==
    (ArchiveRequest /\ OpenReader(cwd, ArchivePath).err) =>
        out.res.status = 500 /\ alive

\* C4: a GET on a missing entry is answered 404, for a missing file under the
\* root and for an inner path the opened archive lacks; an inner path that is
\* a regular file is answered with its bytes.
C4_MissingIs404 ==
    /\ (Served /\ Len(out.part.zipFile) = 0
          /\ Lstat(cwd, Join(<<srvDir, out.fp>>)).err = "ENOENT")
        => out.res.status = 404
    /\ (ArchiveOpened /\ ~req.download /\ Len(out.part.zipPath) > 0) =>
          LET f == ZipLookup(OpenReader(cwd, ArchivePath).File, Join(out.part.zipPath))
          IN  /\ (f.err /\ ValidPath(Join(out.part.zipPath))) => out.res.status = 404
              /\ (~f.err /\ ~f.isDir) =>
                    out.res.status = 200 /\ out.res.kind = "bytes" /\ out.res.data = f.data

\* C5: a GET on an archive with the download flag is answered with the bytes
\* of the archive file at root/fsSegments/archiveSegment, whatever the root
\* and whatever inner path follows.
C5_DownloadIsArchiveBytes ==
    (ArchiveOpened /\ req.download) =>
        /\ out.res.status = 200
        /\ out.res.kind = "bytes"
        /\ out.res.data = Node(Open(cwd, ArchivePath).path).data

\* C6: the names in the root listing of an archive are exactly the archive's
\* top-level names, directories that are only a prefix of deeper entries
\* included.
C6_RootListingIsTopLevel ==
    (ArchiveOpened /\ ~req.download /\ Len(out.part.zipPath) = 0) =>
        LET File == OpenReader(cwd, ArchivePath).File
        IN  {TrimSlash(out.res.rows[i].entry) : i \in 1..Len(out.res.rows)}
                = {EntrySegs(File[i])[1] : i \in 1..Len(File)}

\* C7: in an archive listing served for path P every link leads to P/e, e
\* the entry's name, whatever the root.
C7_LinksReenterArchive ==
    (ArchiveOpened /\ out.res.kind = "listing") =>
        \A i \in 1..Len(out.res.rows) :
            out.res.rows[i].linked =>
                Clean(Decode(out.res.rows[i].href))
                    = Clean(out.fp \o <<"/">> \o out.res.rows[i].entry)

\* C8: in every listing an entry whose lower-cased name is naturally less
\* than another's is rendered before it.
C8_ListingsNaturallySorted ==
    (Served /\ out.res.kind = "listing") =>
        \A i, j \in 1..Len(out.res.rows) :
            i < j => ~ListingLess(TrimSlash(out.res.rows[j].entry),
                                  TrimSlash(out.res.rows[i].entry))

\* C9: the path the handler splits and joins to the root is the request
\* target percent-decoded exactly once.
C9_DecodedOnce ==
    Served => out.fp = PathUnescape(req.target).val

\* C10: when a request's handling has ended no file or archive reader it
\* opened is still open.
C10_NoHandleLeft ==
    pc \in {"done", "idle"} => openHandles = {}

\* A request that opened handles and ended on an error path, the process
\* still running.
C10_Witness ==
    /\ Served
    /\ alive
    /\ out.res.status # 200
    /\ out.res.opened # {}

====
